---- MODULE Spec2Model ----
(***************************************************************************)
(* Model of src/check_with_openai.py: the chunker check_text_detailed, the *)
(* chunked claim extractor check_with_openai and the whole-document        *)
(* extractor check_doc_with_openai.                                        *)
(*                                                                         *)
(* Strings the code inspects character by character (the document, the     *)
(* words, the chunk texts) are sequences of one-character strings.         *)
(***************************************************************************)
EXTENDS Integers, Sequences, FiniteSets, TLC

\* ------------------------------------------------------------------ bounds
MaxDocLen == 6        \* longest document, in characters
MaxTokens == 13       \* largest max_tokens argument
MaxNegTokens == 5     \* max_tokens ranges over -MaxNegTokens..MaxTokens
MaxChunks == 3        \* longest chunk list handed to check_with_openai

\* ------------------------------------------------------- program constants
ChunkResponseCeiling == 150     \* max_tokens of the per-chunk request
DocResponseCeiling == 300       \* max_tokens of the whole-document request

VARIABLES
    pc,                 \* position of the running function
    doc,                \* check_text_detailed: file content; check_doc_with_openai: doc
    max_tokens,         \* check_text_detailed: the budget argument
    words,              \* check_text_detailed: doc.split()
    chunk_size,         \* check_text_detailed: max_tokens // 4
    start_idx,          \* check_text_detailed: the loop variable of range()
    matching_chunks,    \* check_text_detailed: the list being built
    chunks,             \* check_with_openai: the input chunk list
    pos,                \* check_with_openai: 1-based position of the for loop
    relevant_documents, \* check_with_openai: the list being built
    calls,              \* requests received by the service, in order
    outcomes,           \* what the service did with each request, in order
    system_prompt,      \* the extractors' instruction prompt
    printed,            \* lines written by print(), in order
    ret                 \* check_doc_with_openai: the returned value

vars == <<pc, doc, max_tokens, words, chunk_size, start_idx, matching_chunks,
          chunks, pos, relevant_documents, calls, outcomes, system_prompt,
          printed, ret>>

chunkerVars == <<doc, max_tokens, words, chunk_size, start_idx, matching_chunks>>
extractorVars == <<chunks, pos, relevant_documents>>

\* ------------------------------------------------------- Python values
None == [kind |-> "None"]
Unset == [kind |-> "unset"]         \* no value returned (yet)

\* ------------------------------------------------------------ characters
Chars == {"a", "B", " ", "\n"}
IsSpace(c) == c \in {" ", "\n"}
Docs == UNION {[1..n -> Chars] : n \in 0..MaxDocLen}

\* str.lower(), one character at a time
LowerKeepsCase(s) == s
Lower(s) == [i \in 1..Len(s) |-> IF s[i] = "B" THEN "b" ELSE s[i]]

\* str.split() without arguments: maximal runs of non-whitespace characters
RECURSIVE SplitFrom(_, _, _, _)
SplitFrom(s, i, cur, acc) ==
    IF i > Len(s)
    THEN IF cur = <<>> THEN acc ELSE Append(acc, cur)
    ELSE IF IsSpace(s[i])
         THEN SplitFrom(s, i + 1, <<>>, IF cur = <<>> THEN acc ELSE Append(acc, cur))
         ELSE SplitFrom(s, i + 1, Append(cur, s[i]), acc)

Split(s) == SplitFrom(s, 1, <<>>, <<>>)

\* ' '.join(ws)
RECURSIVE JoinWords(_)
JoinWords(ws) ==
    IF ws = <<>> THEN <<>>
    ELSE IF Len(ws) = 1 THEN ws[1]
    ELSE ws[1] \o <<" ">> \o JoinWords(Tail(ws))

\* ws[a:b] for 0 <= a <= b (Python clamps b to len(ws))
Min(a, b) == IF a <= b THEN a ELSE b
SliceDropsLast(ws, a, b) == SubSeq(ws, a + 1, Min(b, Len(ws)) - 1)
Slice(ws, a, b) == SubSeq(ws, a + 1, Min(b, Len(ws)))

\* max_tokens // 4 (floor division)
ChunkSizeRoundsUp(mt) == (mt + 3) \div 4
ChunkSize(mt) == mt \div 4

\* the element of range() after cur
NextStartSkipsOne(cur, step) == cur + step + 1
NextStart(cur, step) == cur + step

\* range(start, stop, step) has a next element at cur (step # 0)
RangeHasNextInclusive(cur, stop, step) ==
    IF step > 0 THEN cur <= stop ELSE cur > stop
RangeHasNext(cur, stop, step) ==
    IF step > 0 THEN cur < stop ELSE cur > stop

\* ------------------------------------------------- check_text_detailed
InitChunker ==
    /\ pc = "start"
    /\ doc \in Docs
    /\ max_tokens \in (0 - MaxNegTokens)..MaxTokens
    /\ words = <<>>
    /\ chunk_size = 0
    /\ start_idx = 0
    /\ matching_chunks = <<>>
    /\ chunks = <<>>
    /\ pos = 0
    /\ relevant_documents = <<>>
    /\ calls = <<>>
    /\ outcomes = <<>>
    /\ system_prompt = <<>>
    /\ printed = <<>>
    /\ ret = Unset

othersUnchangedByChunker ==
    UNCHANGED <<extractorVars, calls, outcomes, system_prompt, printed, ret>>

\* lines 18-21
ReadAndSplit ==
    /\ pc = "start"
    /\ words' = Split(Lower(doc))
    /\ chunk_size' = ChunkSize(max_tokens)
    /\ matching_chunks' = <<>>
    /\ pc' = "range"
    /\ UNCHANGED <<doc, max_tokens, start_idx>>
    /\ othersUnchangedByChunker

\* line 23, range(0, len(words), 0): ValueError leaves the function
RangeRaises ==
    /\ pc = "range"
    /\ chunk_size = 0
    /\ pc' = "raised"
    /\ UNCHANGED chunkerVars
    /\ othersUnchangedByChunker

\* line 23, range(0, len(words), chunk_size) with a non-zero step
RangeStart ==
    /\ pc = "range"
    /\ chunk_size # 0
    /\ start_idx' = 0
    /\ pc' = "loop"
    /\ UNCHANGED <<doc, max_tokens, words, chunk_size, matching_chunks>>
    /\ othersUnchangedByChunker

\* lines 24-25, one iteration
LoopBody ==
    /\ pc = "loop"
    /\ RangeHasNext(start_idx, Len(words), chunk_size)
    /\ matching_chunks' = Append(matching_chunks,
            <<start_idx, JoinWords(Slice(words, start_idx, start_idx + chunk_size))>>)
    /\ start_idx' = NextStart(start_idx, chunk_size)
    /\ UNCHANGED <<pc, doc, max_tokens, words, chunk_size>>
    /\ othersUnchangedByChunker

\* line 27
ReturnChunks ==
    /\ pc = "loop"
    /\ ~RangeHasNext(start_idx, Len(words), chunk_size)
    /\ pc' = "done"
    /\ UNCHANGED chunkerVars
    /\ othersUnchangedByChunker

NextChunker ==
    \/ ReadAndSplit
    \/ RangeRaises
    \/ RangeStart
    \/ LoopBody
    \/ ReturnChunks

SpecChunker == InitChunker /\ [][NextChunker]_vars

\* ------------------------------------- properties of check_text_detailed
\* The vocabulary of the properties, stated on the document's characters and
\* not through the operators the function is built from.
LowerCased(s) ==
    [i \in 1..Len(s) |-> CASE s[i] = "B" -> "b" [] s[i] = "A" -> "a" [] OTHER -> s[i]]

RECURSIVE DropLeadingSpace(_)
DropLeadingSpace(s) ==
    IF s # <<>> /\ IsSpace(Head(s)) THEN DropLeadingSpace(Tail(s)) ELSE s

\* s without leading whitespace |-> its runs of whitespace collapsed to " ",
\* trailing whitespace removed
RECURSIVE CollapseSpace(_)
CollapseSpace(s) ==
    IF s = <<>> THEN <<>>
    ELSE IF ~IsSpace(Head(s)) THEN <<Head(s)>> \o CollapseSpace(Tail(s))
    ELSE LET rest == DropLeadingSpace(s)
         IN  IF rest = <<>> THEN <<>> ELSE <<" ">> \o CollapseSpace(rest)

WhitespaceNormalized(s) == CollapseSpace(DropLeadingSpace(s))

\* number of words of s: positions where a run of non-whitespace starts
CountWords(s) ==
    Cardinality({i \in 1..Len(s) : ~IsSpace(s[i]) /\ (i = 1 \/ IsSpace(s[i - 1]))})

ChunkTexts == [i \in 1..Len(matching_chunks) |-> matching_chunks[i][2]]
ChunkStarts == [i \in 1..Len(matching_chunks) |-> matching_chunks[i][1]]
WindowSize == max_tokens \div 4
Returned == pc = "done" /\ max_tokens >= 4

\* C1 (chunk coverage): with max_tokens >= 4, the chunk texts of the returned
\* list, joined in list order with single spaces, are exactly the lower-cased,
\* whitespace-normalized document.
ChunkCoverage ==
    Returned => JoinWords(ChunkTexts) = WhitespaceNormalized(LowerCased(doc))

ChunkCoverageWitness ==
    /\ Returned
    /\ Len(matching_chunks) >= 2
    /\ \E i \in 1..Len(doc) : doc[i] = "B"
    /\ \E i \in 1..(Len(doc) - 1) : IsSpace(doc[i]) /\ IsSpace(doc[i + 1])

\* C6 (chunk sizing): with max_tokens >= 4, every chunk but the last holds
\* exactly max_tokens // 4 words; the last holds len(words) % (max_tokens // 4)
\* words, or max_tokens // 4 when that remainder is 0.
ChunkSizing ==
    Returned =>
        \A i \in 1..Len(matching_chunks) :
            CountWords(ChunkTexts[i]) =
                IF i < Len(matching_chunks) \/ CountWords(doc) % WindowSize = 0
                THEN WindowSize
                ELSE CountWords(doc) % WindowSize

ChunkSizingWitness ==
    /\ Returned
    /\ Len(matching_chunks) >= 2
    /\ CountWords(doc) % WindowSize # 0
    /\ CountWords(ChunkTexts[Len(matching_chunks)]) < WindowSize

\* C7 (offset correctness): with max_tokens >= 4, the i-th chunk (from 0) starts
\* at i * (max_tokens // 4), so the starts strictly increase, and word k of the
\* document is in the chunk that starts at (k // chunk_size) * chunk_size.
OffsetCorrectness ==
    Returned =>
        /\ \A i \in 1..Len(matching_chunks) : ChunkStarts[i] = (i - 1) * WindowSize
        /\ \A i \in 1..(Len(matching_chunks) - 1) : ChunkStarts[i] < ChunkStarts[i + 1]
        /\ \A k \in 0..(CountWords(doc) - 1) :
              LET i == (k \div WindowSize) + 1
                  inChunk == Split(ChunkTexts[i])
                  offset == k - (k \div WindowSize) * WindowSize
              IN  /\ i <= Len(matching_chunks)
                  /\ ChunkStarts[i] = (k \div WindowSize) * WindowSize
                  /\ offset + 1 <= Len(inChunk)
                  /\ inChunk[offset + 1] = Split(LowerCased(doc))[k + 1]

OffsetCorrectnessWitness ==
    /\ Returned
    /\ WindowSize = 2
    /\ Len(matching_chunks) = 2
    /\ ChunkStarts[2] = 2

\* C8 (no empty chunks): with max_tokens >= 4, no returned chunk has an empty
\* text; a document without words (empty or whitespace only) yields the empty
\* list and a document with words yields at least one chunk.
NoEmptyChunks ==
    Returned =>
        /\ \A i \in 1..Len(matching_chunks) :
              ChunkTexts[i] # <<>> /\ CountWords(ChunkTexts[i]) >= 1
        /\ CountWords(doc) = 0 => matching_chunks = <<>>
        /\ CountWords(doc) > 0 => Len(matching_chunks) >= 1

NoEmptyChunksWitness ==
    /\ Returned
    /\ CountWords(doc) = 2 * WindowSize
    /\ Len(matching_chunks) = 2

NoEmptyChunksBlankWitness ==
    /\ Returned
    /\ Len(doc) > 0
    /\ CountWords(doc) = 0
    /\ matching_chunks = <<>>

\* C5 (invalid budget guard): a call with max_tokens < 4 ends in an error: it
\* never returns a chunk list.
InvalidBudgetGuard ==
    (max_tokens < 4 /\ pc \in {"done", "raised"}) => pc = "raised"

\* The part of C5 the code does satisfy: a window size of 0 raises.
ZeroWindowRaises ==
    (max_tokens \in 0..3 /\ pc \in {"loop", "done", "raised"}) => pc = "raised"

\* ------------------------------------------------ the completion service
\* What the code does not control: client.Completion.create either raises or
\* returns a response whose choices are empty or hold one text.
SystemPrompts == {<<"p">>, <<"p", "\n">>}
ResponseTexts ==
    {"not json", "[]", "{}", "{\"claims\": []}", "{\"claims\": null}",
     "{\"claims\": [\"c1\"]}", "{\"claims\": [\"c1\", \"c2\"]}", "{\"claims\": \"x\"}"}
Responses ==
    {[kind |-> "response", choices |-> <<>>]}
        \cup {[kind |-> "response", choices |-> <<t>>] : t \in ResponseTexts}
ServiceError == [kind |-> "raise"]

PyList(items) == [kind |-> "list", items |-> items]
PyStr(chars) == [kind |-> "str", items |-> chars]
PyDict(has, claims) == [kind |-> "dict", has |-> has, claims |-> claims]
Value(v) == [raised |-> FALSE, error |-> "", value |-> v]
Raise(e) == [raised |-> TRUE, error |-> e, value |-> None]

\* json.loads on the texts above
JsonLoads(text) ==
    CASE text = "[]" -> Value(PyList(<<>>))
      [] text = "{}" -> Value(PyDict(FALSE, None))
      [] text = "{\"claims\": []}" -> Value(PyDict(TRUE, PyList(<<>>)))
      [] text = "{\"claims\": null}" -> Value(PyDict(TRUE, None))
      [] text = "{\"claims\": [\"c1\"]}" -> Value(PyDict(TRUE, PyList(<<"c1">>)))
      [] text = "{\"claims\": [\"c1\", \"c2\"]}" -> Value(PyDict(TRUE, PyList(<<"c1", "c2">>)))
      [] text = "{\"claims\": \"x\"}" -> Value(PyDict(TRUE, PyStr(<<"x">>)))
      [] OTHER -> Raise("JSONDecodeError")

\* json.loads(response.choices[0].text)
ParseResponse(response) ==
    IF response.choices = <<>> THEN Raise("IndexError")
    ELSE JsonLoads(response.choices[1])

\* as_json.get("claims", default)
GetClaims(as_json, default) ==
    IF as_json.kind # "dict" THEN Raise("AttributeError")
    ELSE Value(IF as_json.has THEN as_json.claims ELSE default)

\* bool(v), the test of an if statement
TruthyUnlessNone(v) == v # None
Truthy(v) ==
    CASE v.kind = "None" -> FALSE
      [] v.kind \in {"list", "str"} -> v.items # <<>>
      [] OTHER -> TRUE

\* system_prompt + "\n\n" + text
Prompt(instruction, text) == instruction \o <<"\n", "\n">> \o text

\* relevant_documents.append(record)
AppendRecordInFront(list, record) == <<record>> \o list
AppendRecord(list, record) == Append(list, record)

\* where the for loop goes after the except clause ran at position p of n chunks
AfterExceptBreaks(p, n) == n + 1
AfterExceptRetries(p, n) == p
AfterExcept(p, n) == p + 1

\* --------------------------------------------------- check_with_openai
ChunkPool == {<<0, <<"a", " ", "b">>>>, <<2, <<"c">>>>}
ChunkLists == UNION {[1..n -> ChunkPool] : n \in 0..MaxChunks}

InitExtractor ==
    /\ pc = "start"
    /\ chunks \in ChunkLists
    /\ system_prompt \in SystemPrompts
    /\ pos = 0
    /\ relevant_documents = <<>>
    /\ calls = <<>>
    /\ outcomes = <<>>
    /\ printed = <<>>
    /\ ret = Unset
    /\ doc = <<>>
    /\ max_tokens = 0
    /\ words = <<>>
    /\ chunk_size = 0
    /\ start_idx = 0
    /\ matching_chunks = <<>>

othersUnchangedByExtractor ==
    UNCHANGED <<chunkerVars, system_prompt, chunks, ret>>

\* lines 43-44
CreateClient ==
    /\ pc = "start"
    /\ relevant_documents' = <<>>
    /\ pos' = 1
    /\ pc' = "for"
    /\ UNCHANGED <<calls, outcomes, printed>>
    /\ othersUnchangedByExtractor

\* lines 46-52: the next chunk's request goes out and the call blocks
IssueCall ==
    /\ pc = "for"
    /\ pos <= Len(chunks)
    /\ calls' = Append(calls, [prompt |-> Prompt(system_prompt, chunks[pos][2]),
                               max_tokens |-> ChunkResponseCeiling])
    /\ pc' = "await"
    /\ UNCHANGED <<pos, relevant_documents, outcomes, printed>>
    /\ othersUnchangedByExtractor

\* lines 56-58
ExceptClause(error) ==
    /\ printed' = Append(printed, [start_index |-> chunks[pos][1], error |-> error])
    /\ pos' = AfterExcept(pos, Len(chunks))
    /\ UNCHANGED relevant_documents

\* lines 48-52 raise, then lines 56-58
CallRaises ==
    /\ pc = "await"
    /\ outcomes' = Append(outcomes, ServiceError)
    /\ ExceptClause("APIError")
    /\ pc' = "for"
    /\ UNCHANGED calls
    /\ othersUnchangedByExtractor

\* lines 48-52 return, then lines 53-55, or 56-58 when one of them raises
CallReturns ==
    /\ pc = "await"
    /\ \E response \in Responses :
          LET as_json == ParseResponse(response)
              claims == IF as_json.raised THEN as_json
                        ELSE GetClaims(as_json.value, None)
          IN  /\ outcomes' = Append(outcomes, response)
              /\ IF claims.raised
                 THEN ExceptClause(claims.error)
                 ELSE /\ relevant_documents' =
                            IF Truthy(claims.value)
                            THEN AppendRecord(relevant_documents,
                                    <<chunks[pos][1], chunks[pos][2], claims.value>>)
                            ELSE relevant_documents
                      /\ pos' = pos + 1
                      /\ UNCHANGED printed
    /\ pc' = "for"
    /\ UNCHANGED calls
    /\ othersUnchangedByExtractor

\* line 60
ReturnDocuments ==
    /\ pc = "for"
    /\ pos > Len(chunks)
    /\ pc' = "done"
    /\ UNCHANGED <<pos, relevant_documents, calls, outcomes, printed>>
    /\ othersUnchangedByExtractor

NextExtractor ==
    \/ CreateClient
    \/ IssueCall
    \/ CallRaises
    \/ CallReturns
    \/ ReturnDocuments

SpecExtractor == InitExtractor /\ [][NextExtractor]_vars

\* ------------------------------------------------ check_doc_with_openai
InitDoc ==
    /\ pc = "start"
    /\ doc \in Docs
    /\ system_prompt \in SystemPrompts
    /\ calls = <<>>
    /\ outcomes = <<>>
    /\ printed = <<>>
    /\ ret = Unset
    /\ max_tokens = 0
    /\ words = <<>>
    /\ chunk_size = 0
    /\ start_idx = 0
    /\ matching_chunks = <<>>
    /\ chunks = <<>>
    /\ pos = 0
    /\ relevant_documents = <<>>

othersUnchangedByDoc ==
    UNCHANGED <<chunkerVars, system_prompt, extractorVars>>

\* lines 75-82: the request goes out and the call blocks
DocIssueCall ==
    /\ pc = "start"
    /\ calls' = Append(calls, [prompt |-> Prompt(system_prompt, doc),
                               max_tokens |-> DocResponseCeiling])
    /\ pc' = "await"
    /\ UNCHANGED <<outcomes, printed, ret>>
    /\ othersUnchangedByDoc

\* lines 85-87
DocExceptClause(error) ==
    /\ printed' = Append(printed, [error |-> error])
    /\ ret' = None

\* lines 78-82 raise, then lines 85-87
DocCallRaises ==
    /\ pc = "await"
    /\ outcomes' = Append(outcomes, ServiceError)
    /\ DocExceptClause("APIError")
    /\ pc' = "done"
    /\ UNCHANGED calls
    /\ othersUnchangedByDoc

\* lines 78-82 return, then lines 83-84, or 85-87 when one of them raises
DocCallReturns ==
    /\ pc = "await"
    /\ \E response \in Responses :
          LET as_json == ParseResponse(response)
              claims == IF as_json.raised THEN as_json
                        ELSE GetClaims(as_json.value, PyList(<<>>))
          IN  /\ outcomes' = Append(outcomes, response)
              /\ IF claims.raised
                 THEN DocExceptClause(claims.error)
                 ELSE ret' = claims.value /\ UNCHANGED printed
    /\ pc' = "done"
    /\ UNCHANGED calls
    /\ othersUnchangedByDoc

NextDoc ==
    \/ DocIssueCall
    \/ DocCallRaises
    \/ DocCallReturns

SpecDoc == InitDoc /\ [][NextDoc]_vars

\* ----------------------------------------- properties of the extractors
\* The vocabulary of the properties, stated on what the service answered.
\* The claims array a response text carries (empty when it carries none).
ClaimsIn(text) ==
    CASE text = "{\"claims\": [\"c1\"]}" -> PyList(<<"c1">>)
      [] text = "{\"claims\": [\"c1\", \"c2\"]}" -> PyList(<<"c1", "c2">>)
      [] text = "{\"claims\": \"x\"}" -> PyStr(<<"x">>)
      [] OTHER -> PyList(<<>>)

\* the call raised, or its answer holds no text, no JSON or no JSON object
IsFailure(o) ==
    \/ o.kind = "raise"
    \/ o.choices = <<>>
    \/ o.choices[1] \in {"not json", "[]"}

\* the call succeeded and its answer has a non-empty claims field
YieldsClaims(o) ==
    /\ ~IsFailure(o)
    /\ ClaimsIn(o.choices[1]).items # <<>>

RecordOf(i) == <<chunks[i][1], chunks[i][2], ClaimsIn(outcomes[i].choices[1])>>

RECURSIVE ExpectedRecords(_)
ExpectedRecords(i) ==
    IF i > Len(chunks) THEN <<>>
    ELSE (IF YieldsClaims(outcomes[i]) THEN <<RecordOf(i)>> ELSE <<>>)
            \o ExpectedRecords(i + 1)

RECURSIVE ExpectedReports(_)
ExpectedReports(i) ==
    IF i > Len(chunks) THEN <<>>
    ELSE (IF IsFailure(outcomes[i]) THEN <<chunks[i][1]>> ELSE <<>>)
            \o ExpectedReports(i + 1)

Finished == pc = "done"

\* C2 (per-chunk isolation): whatever calls fail, the batch is not aborted:
\* when check_with_openai returns, every chunk was submitted, an error was
\* reported for each failing chunk (and for no other), and every chunk that
\* did not fail and yielded non-empty claims has its record in the output.
PerChunkIsolation ==
    Finished =>
        /\ Len(calls) = Len(chunks)
        /\ Len(outcomes) = Len(chunks)
        /\ [j \in 1..Len(printed) |-> printed[j].start_index] = ExpectedReports(1)
        /\ \A i \in 1..Len(chunks) :
              YieldsClaims(outcomes[i]) =>
                  \E j \in 1..Len(relevant_documents) :
                      relevant_documents[j] = RecordOf(i)
        /\ Len(relevant_documents) =
              Cardinality({i \in 1..Len(chunks) : YieldsClaims(outcomes[i])})

PerChunkIsolationWitness ==
    /\ Finished
    /\ Len(chunks) = 3
    /\ YieldsClaims(outcomes[1])
    /\ outcomes[2] = ServiceError
    /\ YieldsClaims(outcomes[3])
    /\ Len(relevant_documents) = 2
    /\ Len(printed) = 1

\* C4 (claims filtering): when check_with_openai returns, its output is exactly
\* the records (start index, text, claims) of the chunks whose call succeeded
\* with a non-empty claims field, each with its own chunk's start index, text
\* and claims; chunks with empty or absent claims and failed chunks are absent.
ClaimsFiltering ==
    Finished => relevant_documents = ExpectedRecords(1)

ClaimsFilteringWitness ==
    /\ Finished
    /\ Len(chunks) = 3
    /\ outcomes[1] = [kind |-> "response", choices |-> <<"{\"claims\": []}">>]
    /\ outcomes[2] = [kind |-> "response", choices |-> <<"{}">>]
    /\ YieldsClaims(outcomes[3])
    /\ Len(relevant_documents) = 1

\* C9 (output ordering): at every point of check_with_openai the output is an
\* order-preserving subsequence of the input: its records are those of strictly
\* increasing positions of the chunk list.
OutputOrdering ==
    \E f \in [1..Len(relevant_documents) -> 1..Len(chunks)] :
        /\ \A j \in 1..(Len(relevant_documents) - 1) : f[j] < f[j + 1]
        /\ \A j \in 1..Len(relevant_documents) :
              /\ f[j] <= Len(outcomes)
              /\ YieldsClaims(outcomes[f[j]])
              /\ relevant_documents[j] = RecordOf(f[j])

OutputOrderingWitness ==
    /\ Finished
    /\ Len(chunks) = 3
    /\ chunks[2] # chunks[3]
    /\ ~YieldsClaims(outcomes[1])
    /\ Len(relevant_documents) = 2
    /\ relevant_documents[1][3] # relevant_documents[2][3]

\* C10 (one call per chunk, no retry): the requests the service receives are
\* those of the chunks in input order, one each; a request goes out only when
\* every earlier call has returned or failed; a failed chunk is not submitted
\* again; when check_with_openai returns it has made exactly len(chunks) calls.
OneCallPerChunk ==
    /\ Len(calls) <= Len(chunks)
    /\ \A i \in 1..Len(calls) :
          calls[i].prompt = system_prompt \o <<"\n", "\n">> \o chunks[i][2]
    /\ Len(outcomes) = IF pc = "await" THEN Len(calls) - 1 ELSE Len(calls)
    /\ Finished => Len(calls) = Len(chunks)

OneCallPerChunkWitness ==
    /\ Finished
    /\ Len(calls) = 3
    /\ chunks[1] # chunks[2]
    /\ outcomes[1] = ServiceError
    /\ outcomes[2] = [kind |-> "response", choices |-> <<"not json">>]
    /\ ~IsFailure(outcomes[3])

\* C3 (whole-document failure sentinel): check_doc_with_openai returns None when
\* the call raises or the response cannot be parsed, and a successful call
\* returns a claims value that is not None (the empty list when the claims
\* field is absent).
FailureSentinelDistinct ==
    Finished =>
        /\ IsFailure(outcomes[1]) => ret = None
        /\ ~IsFailure(outcomes[1]) => ret # None
        /\ (~IsFailure(outcomes[1]) /\ outcomes[1].choices[1] = "{}") => ret = PyList(<<>>)

\* The part of C3 the code does satisfy: a failure returns None and a response
\* without a claims field returns the empty list.
FailureReturnsSentinel ==
    Finished =>
        /\ IsFailure(outcomes[1]) => ret = None /\ Len(printed) = 1
        /\ (~IsFailure(outcomes[1]) /\ outcomes[1].choices[1] = "{}") => ret = PyList(<<>>)
====
